---- MODULE Spec2Model ----
(***************************************************************************)
(* Model of the RDAP lookup route (bootstrap index, request validation,    *)
(* outbound query, response normalisation) of mikepage/rdap-lookup.        *)
(*                                                                         *)
(* JavaScript strings that the code inspects character by character (the   *)
(* domain, TLD labels) are sequences of one-character strings.  JSON       *)
(* values whose shape the code probes are tagged records [k, v].           *)
(***************************************************************************)
EXTENDS Integers, Sequences, FiniteSets, TLC

(***************************************************************************)
(* Bounds                                                                  *)
(***************************************************************************)
\* longest raw "domain" query parameter that is enumerated
MaxLen == 5
\* number of request slots of the concurrent specification
NumReqs == 2
\* longest snapshot (number of [tlds, endpoints] entries) that is enumerated
MaxEntries == 2
\* longest raw event list that is enumerated
MaxEvents == 3
\* longest raw entity list that is enumerated
MaxEntities == 2
\* longest raw status / dsData / nameserver list that is enumerated
MaxList == 2

Reqs == 1..NumReqs

(***************************************************************************)
(* Strings as character sequences                                          *)
(***************************************************************************)
\* lower-case letter, upper-case letter, digit, hyphen, dot, white space
Chars == {"a", "B", "1", "-", ".", " "}

\* the sequences over S of length n
SeqsOfLen(S, n) == [1..n -> S]

\* String.prototype.toLowerCase on one character of Chars
LowerChar(c) == IF c = "B" THEN "b" ELSE c

\* a lower-casing that leaves every character as it is
toLowerCase_Identity(s) == s

toLowerCase(s) == [i \in 1..Len(s) |-> LowerChar(s[i])]

IsSpace(c) == c = " "

RECURSIVE TrimStart(_)
TrimStart(s) ==
  IF s # <<>> /\ IsSpace(Head(s)) THEN TrimStart(Tail(s)) ELSE s

RECURSIVE TrimEnd(_)
TrimEnd(s) ==
  IF s # <<>> /\ IsSpace(s[Len(s)]) THEN TrimEnd(SubSeq(s, 1, Len(s) - 1)) ELSE s

\* String.prototype.trim
trim(s) == TrimEnd(TrimStart(s))

\* String.prototype.split("."): the pieces between the dots, empty pieces kept
RECURSIVE SplitAcc(_, _, _)
SplitAcc(s, cur, acc) ==
  IF s = <<>> THEN Append(acc, cur)
  ELSE IF Head(s) = "." THEN SplitAcc(Tail(s), <<>>, Append(acc, cur))
  ELSE SplitAcc(Tail(s), Append(cur, Head(s)), acc)

split(s) == SplitAcc(s, <<>>, <<>>)

\* the character class [a-z0-9]
IsAlnum(c) == c \in {"a", "b", "1"}

(***************************************************************************)
(* domainRegex.test: the automaton of                                      *)
(*   /^[a-z0-9]([a-z0-9-]*[a-z0-9])?(\.[a-z0-9]([a-z0-9-]*[a-z0-9])?)+$/   *)
(* q0 start, q1/q2 first label (last char alnum / hyphen), q3 after a dot, *)
(* q4/q5 a later label (last char alnum / hyphen), q4 accepting.           *)
(***************************************************************************)
RegexStep(q, c) ==
  CASE q = "q0" /\ IsAlnum(c) -> "q1"
    [] q = "q1" /\ IsAlnum(c) -> "q1"
    [] q = "q1" /\ c = "-"    -> "q2"
    [] q = "q1" /\ c = "."    -> "q3"
    [] q = "q2" /\ IsAlnum(c) -> "q1"
    [] q = "q2" /\ c = "-"    -> "q2"
    [] q = "q3" /\ IsAlnum(c) -> "q4"
    [] q = "q4" /\ IsAlnum(c) -> "q4"
    [] q = "q4" /\ c = "-"    -> "q5"
    [] q = "q4" /\ c = "."    -> "q3"
    [] q = "q5" /\ IsAlnum(c) -> "q4"
    [] q = "q5" /\ c = "-"    -> "q5"
    [] OTHER                  -> "dead"

RECURSIVE RegexRun(_, _)
RegexRun(q, s) == IF s = <<>> THEN q ELSE RegexRun(RegexStep(q, Head(s)), Tail(s))

\* a test that also accepts a last label ending in a hyphen
domainRegexTest_TrailingHyphen(s) == RegexRun("q0", s) \in {"q4", "q5"}

domainRegexTest(s) == RegexRun("q0", s) = "q4"

(***************************************************************************)
(* Bootstrap snapshot and index                                            *)
(***************************************************************************)
\* a base URL: its scheme and the rest; e.startsWith("https://") reads the scheme
Url(scheme, host) == [scheme |-> scheme, host |-> host]

NoUrl == Url("", "")

startsWithHttps(e) == e.scheme = "https"

Entry(tlds, endpoints) == [tlds |-> tlds, endpoints |-> endpoints]

\* the TLD lists and the endpoint lists of the snapshot entries that are enumerated
TldLists == {<<<<"a">>>>, <<<<"B">>>>, <<<<"a">>, <<"B">>>>}
EndpointLists ==
  {<<Url("https", "h1")>>,
   <<Url("http", "h2")>>,
   <<Url("https", "h1"), Url("http", "h2")>>,
   <<Url("http", "h2"), Url("https", "h1")>>,
   <<Url("https", "h3"), Url("https", "h1")>>,
   <<Url("http", "h2"), Url("http", "h4")>>,
   <<Url("http", "h4"), Url("http", "h2")>>,
   <<Url("http", "h4"), Url("http", "h2"), Url("https", "h3"), Url("https", "h1")>>}
SnapshotEntries == {Entry(t, e) : t \in TldLists, e \in EndpointLists}

\* Array.prototype.find on the endpoint list, then || endpoints[0]
RECURSIVE FindHttps(_)
FindHttps(endpoints) ==
  IF endpoints = <<>> THEN NoUrl
  ELSE IF startsWithHttps(Head(endpoints)) THEN Head(endpoints)
  ELSE FindHttps(Tail(endpoints))

\* a choice that takes the first endpoint whatever its scheme
ChooseEndpoint_FirstOnly(endpoints) == endpoints[1]

ChooseEndpoint(endpoints) ==
  IF FindHttps(endpoints) # NoUrl THEN FindHttps(endpoints) ELSE endpoints[1]

\* an inner loop that keeps the URL a TLD already has
RECURSIVE SetTlds_KeepFirst(_, _, _)
SetTlds_KeepFirst(m, tlds, endpoint) ==
  IF tlds = <<>> THEN m
  ELSE SetTlds_KeepFirst(m @@ (toLowerCase(Head(tlds)) :> endpoint), Tail(tlds), endpoint)

\* the inner loop: tldToEndpoint.set(tld.toLowerCase(), endpoint) for each tld
RECURSIVE SetTlds(_, _, _)
SetTlds(m, tlds, endpoint) ==
  IF tlds = <<>> THEN m
  ELSE SetTlds((toLowerCase(Head(tlds)) :> endpoint) @@ m, Tail(tlds), endpoint)

\* the outer loop over data.services, in snapshot order
RECURSIVE BuildIndex(_, _)
BuildIndex(m, services) ==
  IF services = <<>> THEN m
  ELSE BuildIndex(SetTlds(m, Head(services).tlds, ChooseEndpoint(Head(services).endpoints)),
                  Tail(services))

EmptyMap == [t \in {} |-> NoUrl]

\* the module-level tldToEndpoint before the first loadBootstrap
NullIndex == [isNull |-> TRUE, map |-> EmptyMap]

\* a loadBootstrap that hands every later call a fresh, empty Map
loadBootstrap_Reset(cur, data) ==
  IF ~cur.isNull THEN [isNull |-> FALSE, map |-> EmptyMap]
  ELSE [isNull |-> FALSE, map |-> BuildIndex(EmptyMap, data)]

\* loadBootstrap: the value of tldToEndpoint after the call
loadBootstrap(cur, data) ==
  IF ~cur.isNull THEN cur
  ELSE [isNull |-> FALSE, map |-> BuildIndex(EmptyMap, data)]

NoTld == [isNull |-> TRUE, tld |-> <<>>]

\* a getTld that returns the first label in place of the last
getTld_FirstLabel(d) ==
  LET parts == split(toLowerCase(d))
  IN  IF Len(parts) < 2 THEN NoTld
      ELSE [isNull |-> FALSE, tld |-> parts[1]]

getTld(d) ==
  LET parts == split(toLowerCase(d))
  IN  IF Len(parts) < 2 THEN NoTld
      ELSE [isNull |-> FALSE, tld |-> parts[Len(parts)]]

NoRdapUrl == [isNull |-> TRUE, url |-> [base |-> NoUrl, path |-> "", domain |-> <<>>],
              endpoint |-> NoUrl]

\* !tld : null or the empty string
TldFalsy(t) == t.isNull \/ t.tld = <<>>

\* getRdapUrl: the result, given the index that loadBootstrap returned
getRdapUrl(d, index) ==
  LET t == getTld(d)
  IN  IF TldFalsy(t) THEN NoRdapUrl
      ELSE IF t.tld \notin DOMAIN index.map THEN NoRdapUrl
      ELSE [isNull |-> FALSE,
            url |-> [base |-> index.map[t.tld], path |-> "domain/", domain |-> d],
            endpoint |-> index.map[t.tld]]

\* tldToEndpoint after getRdapUrl(d): loadBootstrap runs only past the TLD test
IndexAfterGetRdapUrl(d, cur, data) ==
  IF TldFalsy(getTld(d)) THEN cur ELSE loadBootstrap(cur, data)

(***************************************************************************)
(* JSON values of the upstream body                                        *)
(***************************************************************************)
\* a field that is missing, null, an array, or a non-array object {}
JsUndefined == [k |-> "absent", v |-> <<>>]
JsNull      == [k |-> "null",   v |-> <<>>]
JsObject    == [k |-> "object", v |-> <<>>]
JsList(s)   == [k |-> "list",   v |-> s]

Truthy(x)  == x.k \in {"list", "object"}
Nullish(x) == x.k \in {"absent", "null"}

\* absent string values
Undefined == "<undefined>"
Null      == "<null>"

\* x || null on a string
OrNull(x) == IF x \in {Undefined, Null, ""} THEN Null ELSE x

\* x || [] on a JSON value
OrEmptyList(x) == IF Truthy(x) THEN x ELSE JsList(<<>>)

MonthNames == <<"January", "February", "March", "April", "May", "June", "July",
                "August", "September", "October", "November", "December">>

\* formatDate: new Date(s).toLocaleDateString("en-US", long form); the
\* timestamp is read in the server's zone, taken to be UTC
formatDate(d) ==
  IF ~d.valid THEN "Invalid Date"
  ELSE MonthNames[d.m] \o " " \o ToString(d.d) \o ", " \o ToString(d.y)

NoThrow(x) == [threw |-> FALSE, v |-> x]
Throws(x)  == [threw |-> TRUE,  v |-> x]

\* a search that keeps looking for a registrar entity that has a vCard or public ids
RECURSIVE FindRegistrar_SkipBare(_)
FindRegistrar_SkipBare(es) ==
  IF es = <<>> THEN [threw |-> FALSE, found |-> FALSE, at |-> 0]
  ELSE LET e == Head(es)
       IN  IF e.roles.k = "object" THEN [threw |-> TRUE, found |-> FALSE, at |-> 0]
           ELSE IF /\ e.roles.k = "list"
                   /\ \E i \in 1..Len(e.roles.v) : e.roles.v[i] = "registrar"
                   /\ (e.vcardArray.k = "array" \/ Truthy(e.publicIds))
                THEN [threw |-> FALSE, found |-> TRUE, at |-> 1]
           ELSE LET rest == FindRegistrar_SkipBare(Tail(es))
                IN  [rest EXCEPT !.at = IF rest.found THEN rest.at + 1 ELSE 0]

\* entities.find((e) => e.roles?.includes("registrar"))
RECURSIVE FindRegistrar(_)
FindRegistrar(es) ==
  IF es = <<>> THEN [threw |-> FALSE, found |-> FALSE, at |-> 0]
  ELSE LET e == Head(es)
       IN  IF e.roles.k = "object" THEN [threw |-> TRUE, found |-> FALSE, at |-> 0]
           ELSE IF e.roles.k = "list" /\ \E i \in 1..Len(e.roles.v) : e.roles.v[i] = "registrar"
                THEN [threw |-> FALSE, found |-> TRUE, at |-> 1]
           ELSE LET rest == FindRegistrar(Tail(es))
                IN  [rest EXCEPT !.at = IF rest.found THEN rest.at + 1 ELSE 0]

\* vcard.find((entry) => entry[0] === "fn"): index of the first such entry, or 0
RECURSIVE FindFn(_)
FindFn(vcard) ==
  IF vcard = <<>> THEN 0
  ELSE IF Head(vcard).name = "fn" THEN 1
  ELSE LET rest == FindFn(Tail(vcard)) IN IF rest = 0 THEN 0 ELSE rest + 1

extractRegistrar(entities) ==
  IF ~Truthy(entities) THEN NoThrow(Null)
  ELSE IF entities.k = "object" THEN Throws(Null)
  ELSE LET f == FindRegistrar(entities.v)
       IN  IF f.threw THEN Throws(Null)
           ELSE IF ~f.found THEN NoThrow(Null)
           ELSE LET vc == entities.v[f.at].vcardArray
                IN  IF vc.k # "array" THEN NoThrow(Null)
                    ELSE IF Nullish(vc.second) THEN NoThrow(Null)
                    ELSE IF vc.second.k = "object" THEN Throws(Null)
                    ELSE LET i == FindFn(vc.second.v)
                         IN  IF i # 0 /\ vc.second.v[i].value.k = "string"
                             THEN NoThrow(vc.second.v[i].value.s)
                             ELSE NoThrow(Null)

\* publicIds.find((id) => id.type === "IANA Registrar ID")
RECURSIVE FindIana(_)
FindIana(ids) ==
  IF ids = <<>> THEN 0
  ELSE IF Head(ids).type = "IANA Registrar ID" THEN 1
  ELSE LET rest == FindIana(Tail(ids)) IN IF rest = 0 THEN 0 ELSE rest + 1

extractIanaId(entities) ==
  IF ~Truthy(entities) THEN NoThrow(Null)
  ELSE IF entities.k = "object" THEN Throws(Null)
  ELSE LET f == FindRegistrar(entities.v)
       IN  IF f.threw THEN Throws(Null)
           ELSE IF ~f.found THEN NoThrow(Null)
           ELSE LET pids == entities.v[f.at].publicIds
                IN  IF ~Truthy(pids) THEN NoThrow(Null)
                    ELSE IF pids.k = "object" THEN Throws(Null)
                    ELSE LET i == FindIana(pids.v)
                         IN  IF i = 0 THEN NoThrow(Null)
                             ELSE NoThrow(OrNull(pids.v[i].identifier))

NoEvents == [registration |-> Null, expiration |-> Null, lastChanged |-> Null,
             lastUpdateOfRdapDatabase |-> Null]

\* a switch that keeps the first date written to a slot
EventCase_FirstWins(slots, event) ==
  CASE event.eventAction = "registration" /\ slots.registration = Null ->
         [slots EXCEPT !.registration = formatDate(event.eventDate)]
    [] event.eventAction = "expiration" /\ slots.expiration = Null ->
         [slots EXCEPT !.expiration = formatDate(event.eventDate)]
    [] event.eventAction = "last changed" /\ slots.lastChanged = Null ->
         [slots EXCEPT !.lastChanged = formatDate(event.eventDate)]
    [] event.eventAction = "last update of RDAP database" /\ slots.lastUpdateOfRdapDatabase = Null ->
         [slots EXCEPT !.lastUpdateOfRdapDatabase = formatDate(event.eventDate)]
    [] OTHER -> slots

\* one pass of the switch on event.eventAction
EventCase(slots, event) ==
  CASE event.eventAction = "registration" ->
         [slots EXCEPT !.registration = formatDate(event.eventDate)]
    [] event.eventAction = "expiration" ->
         [slots EXCEPT !.expiration = formatDate(event.eventDate)]
    [] event.eventAction = "last changed" ->
         [slots EXCEPT !.lastChanged = formatDate(event.eventDate)]
    [] event.eventAction = "last update of RDAP database" ->
         [slots EXCEPT !.lastUpdateOfRdapDatabase = formatDate(event.eventDate)]
    [] OTHER -> slots

\* for (const event of data.events), in list order
RECURSIVE EventLoop(_, _)
EventLoop(slots, events) ==
  IF events = <<>> THEN slots
  ELSE EventLoop(EventCase(slots, Head(events)), Tail(events))

extractEvents(events) ==
  IF ~Truthy(events) THEN NoThrow(NoEvents)
  ELSE IF events.k = "object" THEN Throws(NoEvents)
  ELSE NoThrow(EventLoop(NoEvents, events.v))

\* the callback of data.nameservers.map
MapNameserver(ns) ==
  [name |-> ns.ldhName,
   ipv4 |-> IF ns.ipAddresses.k = "obj" THEN OrEmptyList(ns.ipAddresses.v4) ELSE JsList(<<>>),
   ipv6 |-> IF ns.ipAddresses.k = "obj" THEN OrEmptyList(ns.ipAddresses.v6) ELSE JsList(<<>>)]

\* a map that drops the nameservers that carry no addresses
mapNameservers_DropBare(nameservers) ==
  IF Nullish(nameservers) THEN NoThrow(JsList(<<>>))
  ELSE IF nameservers.k = "object" THEN Throws(JsList(<<>>))
  ELSE NoThrow(JsList(SelectSeq([i \in 1..Len(nameservers.v) |-> MapNameserver(nameservers.v[i])],
                                LAMBDA n : n.ipv4 # JsList(<<>>))))

mapNameservers(nameservers) ==
  IF Nullish(nameservers) THEN NoThrow(JsList(<<>>))
  ELSE IF nameservers.k = "object" THEN Throws(JsList(<<>>))
  ELSE NoThrow(JsList([i \in 1..Len(nameservers.v) |-> MapNameserver(nameservers.v[i])]))

extractDnssec(secureDNS) ==
  [delegationSigned |-> secureDNS.k = "obj" /\ secureDNS.delegationSigned = "true",
   dsData |-> IF secureDNS.k = "obj" THEN OrEmptyList(secureDNS.dsData) ELSE JsList(<<>>)]

NoDnssec == [delegationSigned |-> FALSE, dsData |-> JsList(<<>>)]

\* the JSON body null, and the fields of a body that is an object
NullBody ==
  [k |-> "null", ldhName |-> Undefined, handle |-> Undefined, status |-> JsUndefined,
   events |-> JsUndefined, nameservers |-> JsUndefined, entities |-> JsUndefined,
   secureDNS |-> [k |-> "absent", delegationSigned |-> "absent", dsData |-> JsUndefined]]

BareBody == [NullBody EXCEPT !.k = "obj", !.ldhName = "a.b"]

NoResult ==
  [domain |-> Undefined, handle |-> Null, status |-> JsList(<<>>), queryTime |-> 0,
   rdapServer |-> NoUrl, events |-> NoEvents, nameservers |-> JsList(<<>>),
   registrar |-> Null, ianaId |-> Null, dnssec |-> NoDnssec, rawResponse |-> NullBody]

\* the result object and the event loop of handler.GET; threw when any step throws
Normalize(data, queryTime, rdapEndpoint) ==
  IF data.k = "null" THEN Throws(NoResult)
  ELSE LET ns  == mapNameservers(data.nameservers)
           reg == extractRegistrar(data.entities)
           id  == extractIanaId(data.entities)
           ev  == extractEvents(data.events)
       IN  IF ns.threw \/ reg.threw \/ id.threw \/ ev.threw THEN Throws(NoResult)
           ELSE NoThrow([domain |-> data.ldhName,
                         handle |-> OrNull(data.handle),
                         status |-> OrEmptyList(data.status),
                         queryTime |-> queryTime,
                         rdapServer |-> rdapEndpoint,
                         events |-> ev.v,
                         nameservers |-> ns.v,
                         registrar |-> reg.v,
                         ianaId |-> id.v,
                         dnssec |-> extractDnssec(data.secureDNS),
                         rawResponse |-> data])

(***************************************************************************)
(* The route handler                                                       *)
(***************************************************************************)
VARIABLES
  dnsBootstrap,   \* the bundled snapshot's services array
  tldToEndpoint,  \* the module-level lazily built index
  pc,             \* per request: "idle", "fetch" (awaiting fetch), "json" (awaiting response.json), "done"
  param,          \* per request: the raw "domain" query parameter
  domain,         \* per request: the trimmed, lower-cased domain
  rdapUrl,        \* per request: the URL handed to fetch
  rdapEndpoint,   \* per request: the chosen base URL
  queryTime,      \* per request: the queryTime taken after fetch resolved
  calls,          \* per request: number of outbound fetch calls issued
  fetched,        \* per request: how the fetch promise settled
  body,           \* per request: how the response.json promise settled
  resp,           \* per request: the Response returned to the client
  phases,         \* per request: the stages passed so far, in order
  mounted,        \* island: the mount effect has run
  hash,           \* island: location.hash
  domainInput,    \* island: the signal domain (the text of the input box)
  isLoading,      \* island: the signal isLoading
  result,         \* island: the signal result
  error,          \* island: the signal error
  initialLoadDone,\* island: the signal initialLoadDone
  lookups         \* island: per handleLookup invocation, where it stands and its domainValue

handlerVars == <<dnsBootstrap, tldToEndpoint, pc, param, domain, rdapUrl, rdapEndpoint,
                 queryTime, calls, fetched, body, resp, phases>>

islandVars == <<mounted, hash, domainInput, isLoading, result, error, initialLoadDone, lookups>>

vars == <<handlerVars, islandVars>>

\* searchParams.get("domain"): null when the parameter is missing
NoParam == [present |-> FALSE, s |-> <<>>]
Str(s) == [present |-> TRUE, s |-> s]

\* the error texts of the handler, with what is interpolated into them
NoMsg == [t |-> ""]
MsgRequired == [t |-> "Domain parameter is required"]
MsgInvalid == [t |-> "Invalid domain format"]
MsgUnsupported(tld) ==
  [t |-> "TLD .${tld} is not supported. No RDAP endpoint found in IANA bootstrap registry.",
   tld |-> tld]
MsgNotFound(d) == [t |-> "Domain ${domain} not found in RDAP registry", domain |-> d]
MsgStatus(code) == [t |-> "RDAP lookup failed with status ${response.status}", status |-> code]
\* error instanceof Error ? error.message : "RDAP lookup failed"
MsgCaught(e) ==
  [t |-> "${error.message}", message |-> IF e.isError THEN e.message ELSE "RDAP lookup failed"]

NoResp == [status |-> 0, success |-> FALSE, error |-> NoMsg, hasQueryTime |-> FALSE,
           queryTime |-> 0, hasResult |-> FALSE, result |-> NoResult]

\* Response.json({success: false, error}, {status: 400})
Reject400(msg) == [NoResp EXCEPT !.status = 400, !.error = msg]

\* a failure response that leaves queryTime out
Fail200_NoQueryTime(msg, qt) == [NoResp EXCEPT !.status = 200, !.error = msg]

\* Response.json({success: false, error, queryTime})
Fail200(msg, qt) ==
  [NoResp EXCEPT !.status = 200, !.error = msg, !.hasQueryTime = TRUE, !.queryTime = qt]

\* Response.json(result)
Ok200(res) ==
  [NoResp EXCEPT !.status = 200, !.success = TRUE, !.hasQueryTime = TRUE,
                 !.queryTime = res.queryTime, !.hasResult = TRUE, !.result = res]

\* Math.round(performance.now() - startTime)
QueryTimes == {0, 7}

\* what a rejected promise carries
NoException == [isError |-> FALSE, message |-> ""]
TransportExceptions == {[isError |-> TRUE, message |-> "connection refused"],
                        [isError |-> TRUE, message |-> "operation timed out"],
                        [isError |-> FALSE, message |-> "aborted"]}
ParseExceptions == {[isError |-> TRUE, message |-> "Unexpected token < in JSON"]}
TypeErrorException == [isError |-> TRUE, message |-> "TypeError"]

Statuses == {200, 201, 403, 404, 500}

\* response.ok
ResponseOk(status) == status >= 200 /\ status <= 299

NotFetched == [kind |-> "pending", status |-> 0, error |-> NoException]
FetchThrew(e) == [kind |-> "threw", status |-> 0, error |-> e]
FetchStatus(st) == [kind |-> "response", status |-> st, error |-> NoException]
FetchOutcomes == {FetchThrew(e) : e \in TransportExceptions} \cup {FetchStatus(st) : st \in Statuses}

NoBody == [kind |-> "pending", error |-> NoException, data |-> NullBody]
BodyThrew(e) == [kind |-> "threw", error |-> e, data |-> NullBody]
BodyParsed(d) == [kind |-> "parsed", error |-> NoException, data |-> d]

Falsy(p) == ~p.present \/ toLowerCase(trim(p.s)) = <<>>

\* handler.GET from its entry to the first await (fetch) or an early return
GET(r, p) ==
  /\ pc[r] = "idle"
  /\ param' = [param EXCEPT ![r] = p]
  /\ LET d == IF p.present THEN toLowerCase(trim(p.s)) ELSE <<>>
         index == IndexAfterGetRdapUrl(d, tldToEndpoint, dnsBootstrap)
         rdapResult == getRdapUrl(d, index)
     IN  IF Falsy(p)
         THEN /\ resp' = [resp EXCEPT ![r] = Reject400(MsgRequired)]
              /\ pc' = [pc EXCEPT ![r] = "done"]
              /\ phases' = [phases EXCEPT ![r] = <<"Validating", "Rejected">>]
              /\ UNCHANGED <<tldToEndpoint, domain, rdapUrl, rdapEndpoint, calls>>
         ELSE IF ~domainRegexTest(d)
         THEN /\ resp' = [resp EXCEPT ![r] = Reject400(MsgInvalid)]
              /\ pc' = [pc EXCEPT ![r] = "done"]
              /\ domain' = [domain EXCEPT ![r] = d]
              /\ phases' = [phases EXCEPT ![r] = <<"Validating", "Rejected">>]
              /\ UNCHANGED <<tldToEndpoint, rdapUrl, rdapEndpoint, calls>>
         ELSE IF rdapResult.isNull
         THEN /\ resp' = [resp EXCEPT ![r] = Reject400(MsgUnsupported(getTld(d).tld))]
              /\ pc' = [pc EXCEPT ![r] = "done"]
              /\ domain' = [domain EXCEPT ![r] = d]
              /\ tldToEndpoint' = index
              /\ phases' = [phases EXCEPT ![r] = <<"Validating", "Resolving", "Rejected">>]
              /\ UNCHANGED <<rdapUrl, rdapEndpoint, calls>>
         ELSE /\ pc' = [pc EXCEPT ![r] = "fetch"]
              /\ domain' = [domain EXCEPT ![r] = d]
              /\ tldToEndpoint' = index
              /\ rdapUrl' = [rdapUrl EXCEPT ![r] = rdapResult.url]
              /\ rdapEndpoint' = [rdapEndpoint EXCEPT ![r] = rdapResult.endpoint]
              /\ calls' = [calls EXCEPT ![r] = @ + 1]
              /\ phases' = [phases EXCEPT ![r] = <<"Validating", "Resolving", "Querying">>]
              /\ UNCHANGED resp
  /\ UNCHANGED <<dnsBootstrap, queryTime, fetched, body>>
  /\ UNCHANGED islandVars

\* a catch block that sends the request again
Catch_Retry(r, e, qt) ==
  /\ pc' = [pc EXCEPT ![r] = "fetch"]
  /\ calls' = [calls EXCEPT ![r] = @ + 1]
  /\ UNCHANGED <<resp, rdapUrl>>

\* the catch block: one failure response, the request is over
Catch(r, e, qt) ==
  /\ resp' = [resp EXCEPT ![r] = Fail200(MsgCaught(e), qt)]
  /\ pc' = [pc EXCEPT ![r] = "done"]
  /\ UNCHANGED <<calls, rdapUrl>>

\* the fetch promise settles: the code up to the next await or return
FetchSettled(r, o, qt) ==
  /\ pc[r] = "fetch"
  /\ fetched' = [fetched EXCEPT ![r] = o]
  /\ IF o.kind = "threw"
     THEN /\ Catch(r, o.error, qt)
          /\ phases' = [phases EXCEPT ![r] = Append(@, "Failure")]
          /\ UNCHANGED queryTime
     ELSE IF o.status = 404
     THEN /\ resp' = [resp EXCEPT ![r] = Fail200(MsgNotFound(domain[r]), qt)]
          /\ pc' = [pc EXCEPT ![r] = "done"]
          /\ phases' = [phases EXCEPT ![r] = Append(@, "Failure")]
          /\ queryTime' = [queryTime EXCEPT ![r] = qt]
          /\ UNCHANGED <<calls, rdapUrl>>
     ELSE IF ~ResponseOk(o.status)
     THEN /\ resp' = [resp EXCEPT ![r] = Fail200(MsgStatus(o.status), qt)]
          /\ pc' = [pc EXCEPT ![r] = "done"]
          /\ phases' = [phases EXCEPT ![r] = Append(@, "Failure")]
          /\ queryTime' = [queryTime EXCEPT ![r] = qt]
          /\ UNCHANGED <<calls, rdapUrl>>
     ELSE /\ pc' = [pc EXCEPT ![r] = "json"]
          /\ queryTime' = [queryTime EXCEPT ![r] = qt]
          /\ UNCHANGED <<resp, phases, calls, rdapUrl>>
  /\ UNCHANGED <<dnsBootstrap, tldToEndpoint, param, domain, rdapEndpoint, body>>
  /\ UNCHANGED islandVars

\* the response.json promise settles: result construction, event loop, or the catch
JsonSettled(r, o, qt) ==
  /\ pc[r] = "json"
  /\ qt >= queryTime[r]
  /\ body' = [body EXCEPT ![r] = o]
  /\ IF o.kind = "threw"
     THEN /\ Catch(r, o.error, qt)
          /\ phases' = [phases EXCEPT ![r] = Append(@, "Failure")]
     ELSE LET n == Normalize(o.data, queryTime[r], rdapEndpoint[r])
          IN  IF n.threw
              THEN /\ Catch(r, TypeErrorException, qt)
                   /\ phases' = [phases EXCEPT ![r] = @ \o <<"Normalizing", "Failure">>]
              ELSE /\ resp' = [resp EXCEPT ![r] = Ok200(n.v)]
                   /\ pc' = [pc EXCEPT ![r] = "done"]
                   /\ phases' = [phases EXCEPT ![r] = @ \o <<"Normalizing", "Success">>]
                   /\ UNCHANGED <<calls, rdapUrl>>
  /\ UNCHANGED <<dnsBootstrap, tldToEndpoint, param, domain, rdapEndpoint, queryTime, fetched>>
  /\ UNCHANGED islandVars

InitRequests ==
  /\ tldToEndpoint = NullIndex
  /\ pc = [r \in Reqs |-> "idle"]
  /\ param = [r \in Reqs |-> NoParam]
  /\ domain = [r \in Reqs |-> <<>>]
  /\ rdapUrl = [r \in Reqs |-> NoRdapUrl.url]
  /\ rdapEndpoint = [r \in Reqs |-> NoUrl]
  /\ queryTime = [r \in Reqs |-> 0]
  /\ calls = [r \in Reqs |-> 0]
  /\ fetched = [r \in Reqs |-> NotFetched]
  /\ body = [r \in Reqs |-> NoBody]
  /\ resp = [r \in Reqs |-> NoResp]
  /\ phases = [r \in Reqs |-> <<>>]

(***************************************************************************)
(* The RdapLookup island                                                   *)
(***************************************************************************)
\* handleLookup invocations that are followed
MaxLookups == 2
Lookups == 1..MaxLookups

\* the rest of the hash pattern after the captured group: \/?\s*$
HashRest(s) ==
  LET t == IF s # <<>> /\ Head(s) = "/" THEN Tail(s) ELSE s
  IN  \A i \in 1..Len(t) : IsSpace(t[i])

NoMatch == [isNull |-> TRUE, s |-> <<>>]

\* parseHash: hash.match(/^#(.+?)\/?\s*$/), the lazy group takes the shortest
\* non-empty text after which the rest of the pattern matches
parseHash(h) ==
  IF h = <<>> \/ Head(h) # "#" THEN NoMatch
  ELSE LET b == Tail(h)
           ks == {k \in 1..Len(b) : HashRest(SubSeq(b, k + 1, Len(b)))}
       IN  IF ks = {} THEN NoMatch
           ELSE [isNull |-> FALSE,
                 s |-> SubSeq(b, 1, CHOOSE k \in ks : \A j \in ks : k <= j)]

\* updateHash: location.hash after history.replaceState
updateHash(d) == IF d # <<>> THEN <<"#">> \o d ELSE <<>>

\* the effect on [domain.value]: it runs when the signal changed
HashEffect(old, new, h) == IF new # old THEN updateHash(trim(new)) ELSE h

\* the JSON the island reads from /api/rdap: success, error and the result fields
NullData == [kind |-> "null", success |-> FALSE, error |-> "", domain |-> <<>>]
SuccessData(d) == [kind |-> "object", success |-> TRUE, error |-> "", domain |-> d]
FailureData(msg) == [kind |-> "object", success |-> FALSE, error |-> msg, domain |-> <<>>]

NoIslandResult == [isNull |-> TRUE, data |-> NullData]
IslandResult(d) == [isNull |-> FALSE, data |-> d]

\* how the island's fetch promise and its response.json promise settle
IslandFetchOutcomes == {"threw", "response"}
IslandBodyThrew == [kind |-> "threw", data |-> NullData]
IslandBodyParsed(d) == [kind |-> "parsed", data |-> d]
IslandBodyOutcomes(d) ==
  {IslandBodyThrew} \cup
  {IslandBodyParsed(x) : x \in {NullData, SuccessData(d), FailureData("Invalid domain format"),
                                FailureData("")}}

NoLookup == [pc |-> "idle", domainValue |-> <<>>]

\* the first invocation not used yet
NextLookup == CHOOSE k \in Lookups : lookups[k].pc = "idle" /\ \A j \in Lookups : lookups[j].pc = "idle" => k <= j

\* handleLookup from its entry to the await of fetch, or the early return
handleLookup(text) ==
  LET domainValue == toLowerCase(trim(text))
  IN  IF domainValue = <<>>
      THEN /\ error' = "Please enter a domain name"
           /\ result' = NoIslandResult
           /\ UNCHANGED <<isLoading, lookups>>
      ELSE /\ \E k \in Lookups : lookups[k].pc = "idle"
           /\ error' = Null
           /\ result' = NoIslandResult
           /\ isLoading' = TRUE
           /\ lookups' = [lookups EXCEPT ![NextLookup] = [pc |-> "fetch", domainValue |-> domainValue]]

\* the catch block and finally
LookupCatch(k) ==
  /\ error' = "Failed to perform RDAP lookup"
  /\ isLoading' = FALSE
  /\ lookups' = [lookups EXCEPT ![k].pc = "done"]
  /\ UNCHANGED result

\* the island's fetch promise settles
LookupFetchSettled(k, o) ==
  /\ lookups[k].pc = "fetch"
  /\ IF o = "threw"
     THEN LookupCatch(k)
     ELSE /\ lookups' = [lookups EXCEPT ![k].pc = "json"]
          /\ UNCHANGED <<error, result, isLoading>>
  /\ UNCHANGED <<mounted, hash, domainInput, initialLoadDone>>
  /\ UNCHANGED handlerVars

\* the island's response.json promise settles: the rest of handleLookup
LookupJsonSettled(k, o) ==
  /\ lookups[k].pc = "json"
  /\ IF o.kind = "threw" \/ o.data.kind = "null"
     THEN LookupCatch(k)
     ELSE IF ~o.data.success
     THEN /\ error' = IF o.data.error # "" THEN o.data.error ELSE "RDAP lookup failed"
          /\ isLoading' = FALSE
          /\ lookups' = [lookups EXCEPT ![k].pc = "done"]
          /\ UNCHANGED result
     ELSE /\ result' = IslandResult(o.data)
          /\ isLoading' = FALSE
          /\ lookups' = [lookups EXCEPT ![k].pc = "done"]
          /\ UNCHANGED error
  /\ UNCHANGED <<mounted, hash, domainInput, initialLoadDone>>
  /\ UNCHANGED handlerVars

\* the mount effect: handleHashChange once, then the effect on [domain.value]
Mount ==
  /\ ~mounted
  /\ mounted' = TRUE
  /\ initialLoadDone' = TRUE
  /\ LET parsed == parseHash(hash)
     IN  IF ~parsed.isNull
         THEN /\ domainInput' = parsed.s
              /\ handleLookup(parsed.s)
         ELSE UNCHANGED <<domainInput, error, result, isLoading, lookups>>
  /\ hash' = updateHash(trim(domainInput'))
  /\ UNCHANGED handlerVars

\* a hashchange event: the listener registered by the mount effect
HashChange(h) ==
  /\ mounted
  /\ LET parsed == parseHash(h)
     IN  IF ~parsed.isNull
         THEN /\ domainInput' = parsed.s
              /\ IF ~initialLoadDone
                 THEN initialLoadDone' = TRUE /\ handleLookup(parsed.s)
                 ELSE UNCHANGED <<initialLoadDone, error, result, isLoading, lookups>>
         ELSE /\ initialLoadDone' = TRUE
              /\ UNCHANGED <<domainInput, error, result, isLoading, lookups>>
  /\ hash' = HashEffect(domainInput, domainInput', h)
  /\ UNCHANGED mounted
  /\ UNCHANGED handlerVars

\* onInput of the text box
Input(v) ==
  /\ mounted
  /\ domainInput' = v
  /\ hash' = IF initialLoadDone THEN HashEffect(domainInput, v, hash) ELSE hash
  /\ UNCHANGED <<mounted, isLoading, result, error, initialLoadDone, lookups>>
  /\ UNCHANGED handlerVars

\* onKeyDown with the Enter key
EnterKey ==
  /\ mounted
  /\ handleLookup(domainInput)
  /\ UNCHANGED <<mounted, hash, domainInput, initialLoadDone>>
  /\ UNCHANGED handlerVars

\* onClick of the Lookup button, which is disabled while loading or empty
ClickLookup ==
  /\ mounted
  /\ ~(trim(domainInput) = <<>> \/ isLoading)
  /\ handleLookup(domainInput)
  /\ UNCHANGED <<mounted, hash, domainInput, initialLoadDone>>
  /\ UNCHANGED handlerVars

\* handleClear, then the effect on [domain.value]
handleClear ==
  /\ mounted
  /\ domainInput' = <<>>
  /\ result' = NoIslandResult
  /\ error' = Null
  /\ hash' = <<>>
  /\ UNCHANGED <<mounted, isLoading, initialLoadDone, lookups>>
  /\ UNCHANGED handlerVars

\* the page before the island is mounted
InitIsland ==
  /\ mounted = FALSE
  /\ hash = <<>>
  /\ domainInput = <<>>
  /\ isLoading = FALSE
  /\ result = NoIslandResult
  /\ error = Null
  /\ initialLoadDone = FALSE
  /\ lookups = [k \in Lookups |-> NoLookup]

(***************************************************************************)
(* Upstream bodies that are enumerated                                     *)
(***************************************************************************)
EventActions == {"registration", "expiration", "last changed",
                 "last update of RDAP database", "transfer"}
EventDates == {[valid |-> TRUE, y |-> 2024, m |-> 1, d |-> 5],
               [valid |-> TRUE, y |-> 1999, m |-> 12, d |-> 31],
               [valid |-> FALSE, y |-> 0, m |-> 0, d |-> 0]}
Events == {[eventAction |-> a, eventDate |-> d] : a \in EventActions, d \in EventDates}

RoleFields == {JsUndefined, JsObject, JsList(<<"technical">>), JsList(<<"registrar">>),
               JsList(<<"technical", "registrar">>)}

NoVcard == [k |-> "absent", second |-> JsUndefined]
Vcard(second) == [k |-> "array", second |-> second]
VText(name, s) == [name |-> name, value |-> [k |-> "string", s |-> s]]
VArray(name) == [name |-> name, value |-> [k |-> "array", s |-> ""]]
VcardFields ==
  {NoVcard, Vcard(JsUndefined), Vcard(JsObject), Vcard(JsList(<<>>)),
   Vcard(JsList(<<VText("fn", "Registrar A")>>)),
   Vcard(JsList(<<VText("fn", "")>>)),
   Vcard(JsList(<<VArray("fn"), VText("fn", "Registrar B")>>)),
   Vcard(JsList(<<VText("org", "Org O"), VText("fn", "Registrar B"), VText("fn", "Registrar A")>>))}

Pid(type, identifier) == [type |-> type, identifier |-> identifier]
PublicIdFields ==
  {JsUndefined, JsObject, JsList(<<>>),
   JsList(<<Pid("IANA Registrar ID", "292")>>),
   JsList(<<Pid("Other ID", "X"), Pid("IANA Registrar ID", "9")>>),
   JsList(<<Pid("IANA Registrar ID", "9"), Pid("IANA Registrar ID", "292")>>),
   JsList(<<Pid("IANA Registrar ID", ""), Pid("IANA Registrar ID", "292")>>),
   JsList(<<Pid("iana registrar id", "292")>>)}

Entity(roles, vcardArray, publicIds) ==
  [roles |-> roles, vcardArray |-> vcardArray, publicIds |-> publicIds]
\* entities that differ in roles and vCard, in roles and public ids, and in all three
NameEntities == {Entity(r, v, JsUndefined) : r \in RoleFields, v \in VcardFields}
IdEntities == {Entity(r, NoVcard, i) : r \in RoleFields, i \in PublicIdFields}
MixedEntities ==
  {Entity(r, v, i) : r \in {JsList(<<"registrar">>), JsList(<<"technical">>)},
                     v \in {NoVcard, Vcard(JsList(<<VText("fn", "Registrar A")>>))},
                     i \in {JsUndefined, JsList(<<Pid("IANA Registrar ID", "292")>>)}}

StatusCodes == {"active", "clientHold"}

NoIps == [k |-> "absent", v4 |-> JsUndefined, v6 |-> JsUndefined]
Ips(v4, v6) == [k |-> "obj", v4 |-> v4, v6 |-> v6]
Nameservers ==
  {[ldhName |-> n, ipAddresses |-> ip] :
     n \in {"ns1.a.b", "ns2.a.b"},
     ip \in {NoIps, Ips(JsUndefined, JsUndefined), Ips(JsList(<<"192.0.2.1">>), JsUndefined),
             Ips(JsList(<<"192.0.2.1", "192.0.2.2">>), JsList(<<"2001:db8::1">>))}}

DsRecords == {[keyTag |-> 1, algorithm |-> 8, digestType |-> 2, digest |-> "AB12"],
              [keyTag |-> 2, algorithm |-> 13, digestType |-> 2, digest |-> "cd34"]}
NoSecureDns == [k |-> "absent", delegationSigned |-> "absent", dsData |-> JsUndefined]
SecureDns(signed, dsData) == [k |-> "obj", delegationSigned |-> signed, dsData |-> dsData]

\* bodies that vary one field of the bare object
WithEvents(e) == [BareBody EXCEPT !.events = e]
WithEntities(e) == [BareBody EXCEPT !.entities = e]
WithLists(st, ns, ds) ==
  [BareBody EXCEPT !.status = st, !.nameservers = ns, !.secureDNS = SecureDns("absent", ds)]

\* the JSON null, and objects whose fields are missing, null, {} or empty
OddBodies ==
  {NullBody, BareBody, [BareBody EXCEPT !.handle = ""], [BareBody EXCEPT !.handle = "H-1"]}
    \cup {WithEvents(x) : x \in {JsNull, JsObject}}
    \cup {WithEntities(x) : x \in {JsNull, JsObject}}
    \cup {[BareBody EXCEPT !.status = x] : x \in {JsNull, JsObject}}
    \cup {[BareBody EXCEPT !.nameservers = x] : x \in {JsNull, JsObject}}
    \cup {[BareBody EXCEPT !.secureDNS = x] :
             x \in {SecureDns("true", JsUndefined), SecureDns("false", JsNull),
                    SecureDns("absent", JsObject)}}

\* a body with every field populated
FullBody ==
  [BareBody EXCEPT
     !.handle = "H-1",
     !.status = JsList(<<"active">>),
     !.events = JsList(<<[eventAction |-> "registration",
                          eventDate |-> [valid |-> TRUE, y |-> 1999, m |-> 12, d |-> 31]]>>),
     !.nameservers = JsList(<<[ldhName |-> "ns1.a.b", ipAddresses |-> NoIps]>>),
     !.entities = JsList(<<Entity(JsList(<<"registrar">>),
                                  Vcard(JsList(<<VText("fn", "Registrar A")>>)),
                                  JsList(<<Pid("IANA Registrar ID", "292")>>))>>),
     !.secureDNS = SecureDns("true", JsList(<<>>))]

\* the bodies of the specifications that enumerate the requests instead
SampleBodies ==
  {NullBody, BareBody, FullBody,
   [BareBody EXCEPT !.events = JsObject],
   [FullBody EXCEPT !.nameservers = JsObject]}

BodyOutcomes(bodies) ==
  {BodyThrew(e) : e \in ParseExceptions} \cup {BodyParsed(d) : d \in bodies}

(***************************************************************************)
(* Specifications                                                          *)
(***************************************************************************)
\* snapshots of the specifications that enumerate the requests instead
SampleSnapshots ==
  {<<>>,
   <<Entry(<<<<"a">>>>, <<Url("http", "h2"), Url("https", "h1")>>)>>,
   <<Entry(<<<<"B">>, <<"a">>>>, <<Url("http", "h2")>>),
     Entry(<<<<"a">>>>, <<Url("https", "h3"), Url("https", "h1")>>)>>}

\* Spec: one request, every query parameter up to MaxLen
Init ==
  /\ dnsBootstrap \in SampleSnapshots
  /\ InitRequests
  /\ InitIsland

Next ==
  \/ pc[1] = "idle" /\ GET(1, NoParam)
  \/ pc[1] = "idle" /\ \E n \in 0..MaxLen : \E s \in SeqsOfLen(Chars, n) : GET(1, Str(s))
  \/ pc[1] = "fetch" /\ \E o \in FetchOutcomes, qt \in QueryTimes : FetchSettled(1, o, qt)
  \/ pc[1] = "json" /\ \E o \in BodyOutcomes(SampleBodies), qt \in QueryTimes : JsonSettled(1, o, qt)

Spec == Init /\ [][Next]_vars

\* SpecNorm: one request for a supported domain, the enumerated upstream bodies
NormParams == {Str(<<"1", ".", "a">>)}

InitNorm ==
  /\ dnsBootstrap = <<Entry(<<<<"a">>>>, <<Url("http", "h2"), Url("https", "h1")>>)>>
  /\ InitRequests
  /\ InitIsland

NextNorm ==
  \/ pc[1] = "idle" /\ \E p \in NormParams : GET(1, p)
  \/ pc[1] = "fetch" /\ \E qt \in QueryTimes : FetchSettled(1, FetchStatus(200), qt)
  \/ pc[1] = "json" /\ \E d \in OddBodies, qt \in QueryTimes : JsonSettled(1, BodyParsed(d), qt)
  \/ pc[1] = "json" /\ \E n \in 0..MaxEvents : \E l \in SeqsOfLen(Events, n) :
       JsonSettled(1, BodyParsed(WithEvents(JsList(l))), 7)
  \/ pc[1] = "json" /\ \E n \in 0..MaxEntities :
       \E l \in SeqsOfLen(NameEntities, n) \cup SeqsOfLen(IdEntities, n) \cup SeqsOfLen(MixedEntities, n) :
         JsonSettled(1, BodyParsed(WithEntities(JsList(l))), 7)
  \/ pc[1] = "json" /\ \E n1 \in 0..MaxList, n2 \in 0..MaxList, n3 \in 0..MaxList :
       \E st \in SeqsOfLen(StatusCodes, n1), ns \in SeqsOfLen(Nameservers, n2),
          ds \in SeqsOfLen(DsRecords, n3) :
         JsonSettled(1, BodyParsed(WithLists(JsList(st), JsList(ns), JsList(ds))), 7)

SpecNorm == InitNorm /\ [][NextNorm]_vars

\* SpecBoot: every snapshot within the bounds, one request up to the fetch
BootParams == {Str(<<"1", ".", "a">>), Str(<<"a", ".", "B">>), Str(<<"a", ".", "1">>)}

InitBoot ==
  /\ \E n \in 0..MaxEntries : dnsBootstrap \in SeqsOfLen(SnapshotEntries, n)
  /\ InitRequests
  /\ InitIsland

NextBoot == pc[1] = "idle" /\ \E p \in BootParams : GET(1, p)

SpecBoot == InitBoot /\ [][NextBoot]_vars

\* SpecConc: NumReqs requests whose awaits interleave
ConcParams == BootParams \cup {NoParam, Str(<<"a", "-", ".", "a">>)}

NextConc ==
  \/ \E r \in Reqs, p \in ConcParams : GET(r, p)
  \/ \E r \in Reqs, o \in FetchOutcomes : FetchSettled(r, o, 7)
  \/ \E r \in Reqs, o \in BodyOutcomes({BareBody, [BareBody EXCEPT !.events = JsObject]}) :
       JsonSettled(r, o, 7)

SpecConc == Init /\ [][NextConc]_vars

\* SpecCase: request 1 takes any parameter up to MaxLen, request 2 a case
\* variant of it; the upstream gives request 2 the answer it gave request 1
CaseChars == {"b", "B", "1", "-", ".", " "}

SwapCase(c) == IF c = "b" THEN "B" ELSE IF c = "B" THEN "b" ELSE c

CaseVariants(s) ==
  {[i \in 1..Len(s) |-> IF f[i] THEN SwapCase(s[i]) ELSE s[i]] : f \in [1..Len(s) -> BOOLEAN]}

InitCase ==
  /\ dnsBootstrap = <<Entry(<<<<"B">>, <<"a">>>>, <<Url("http", "h2")>>),
                      Entry(<<<<"a">>>>, <<Url("https", "h3"), Url("https", "h1")>>)>>
  /\ InitRequests
  /\ InitIsland

NextCase ==
  \/ pc[1] = "idle" /\ \E n \in 0..MaxLen : \E s \in SeqsOfLen(CaseChars, n) : GET(1, Str(s))
  \/ pc[1] # "idle" /\ pc[2] = "idle" /\ \E v \in CaseVariants(param[1].s) : GET(2, Str(v))
  \/ pc[1] = "fetch" /\ \E o \in FetchOutcomes : FetchSettled(1, o, 7)
  \/ pc[2] = "fetch" /\ fetched[1] # NotFetched /\ FetchSettled(2, fetched[1], 7)
  \/ pc[1] = "json" /\ \E o \in BodyOutcomes(SampleBodies) : JsonSettled(1, o, 7)
  \/ pc[2] = "json" /\ body[1] # NoBody /\ JsonSettled(2, body[1], 7)

SpecCase == InitCase /\ [][NextCase]_vars

\* SpecIsland: the island from page load on, MaxLookups lookups in flight at most
Hashes == {<<>>, <<"#">>, <<"#", " ">>, <<"#", "1", ".", "a", "/">>}
InputTexts == {<<>>, <<" ">>, <<"1", ".", "a">>, <<"a", ".", "B">>}

InitPage ==
  /\ dnsBootstrap = <<>>
  /\ InitRequests
  /\ mounted = FALSE
  /\ hash \in Hashes
  /\ domainInput = <<>>
  /\ isLoading = FALSE
  /\ result = NoIslandResult
  /\ error = Null
  /\ initialLoadDone = FALSE
  /\ lookups = [k \in Lookups |-> NoLookup]

NextIsland ==
  \/ Mount
  \/ \E h \in Hashes : HashChange(h)
  \/ \E v \in InputTexts : Input(v)
  \/ EnterKey
  \/ ClickLookup
  \/ handleClear
  \/ \E k \in Lookups, o \in IslandFetchOutcomes : LookupFetchSettled(k, o)
  \/ \E k \in Lookups : \E o \in IslandBodyOutcomes(lookups[k].domainValue) : LookupJsonSettled(k, o)

SpecIsland == InitPage /\ [][NextIsland]_vars

(***************************************************************************)
(* Properties                                                              *)
(***************************************************************************)
\* the strict label-syntax rule, position by position: only letters, digits,
\* hyphens and dots; at least one dot; a letter or digit at both ends of the
\* name and on both sides of every dot
StrictSyntax(d) ==
  /\ Len(d) >= 1
  /\ \A i \in 1..Len(d) : IsAlnum(d[i]) \/ d[i] \in {"-", "."}
  /\ \E i \in 1..Len(d) : d[i] = "."
  /\ IsAlnum(d[1]) /\ IsAlnum(d[Len(d)])
  /\ \A i \in 2..(Len(d) - 1) : d[i] = "." => IsAlnum(d[i - 1]) /\ IsAlnum(d[i + 1])

\* the query parameter after trimming and lower-casing
Cleaned(p) == toLowerCase(trim(p.s))

InvalidInput(p) == ~p.present \/ Cleaned(p) = <<>> \/ ~StrictSyntax(Cleaned(p))

\* the label after the last dot
LastLabel(d) ==
  LET dots == {i \in 1..Len(d) : d[i] = "."}
      last == CHOOSE i \in dots : \A j \in dots : j <= i
  IN  SubSeq(d, last + 1, Len(d))

\* the snapshot entries that list the TLD, by position
EntriesOf(tld) ==
  {i \in 1..Len(dnsBootstrap) :
     \E j \in 1..Len(dnsBootstrap[i].tlds) : toLowerCase(dnsBootstrap[i].tlds[j]) = tld}

Started(r) == pc[r] # "idle"
Done(r) == pc[r] = "done"

\* C1: a request whose domain parameter is missing, empty after trimming and
\* lower-casing, or outside the strict label syntax is answered with a 400
\* invalid-input rejection, and it never issues an outbound call.
C1_InvalidInputRejected ==
  \A r \in Reqs :
    Started(r) /\ InvalidInput(param[r]) =>
      /\ Done(r)
      /\ calls[r] = 0
      /\ fetched[r] = NotFetched
      /\ resp[r].status = 400
      /\ ~resp[r].success
      /\ resp[r].error \in {MsgRequired, MsgInvalid}

\* a parameter with a space inside ("a a.a") was rejected
C1_Witness ==
  /\ param[1] = Str(<<"a", " ", "a", ".", "a">>)
  /\ Done(1)
  /\ resp[1] = Reject400(MsgInvalid)
  /\ dnsBootstrap # <<>>

\* C2: a request for a syntactically valid domain whose TLD is listed by no
\* snapshot entry is answered with a 400 rejection whose message carries that
\* TLD, which no failure of the outbound call can produce, and it never
\* issues an outbound call.
C2_UnsupportedTldRejected ==
  \A r \in Reqs :
    (/\ Started(r)
     /\ ~InvalidInput(param[r])
     /\ EntriesOf(LastLabel(Cleaned(param[r]))) = {}) =>
      /\ Done(r)
      /\ calls[r] = 0
      /\ fetched[r] = NotFetched
      /\ resp[r] = Reject400(MsgUnsupported(LastLabel(Cleaned(param[r]))))
      /\ \A e \in TransportExceptions \cup ParseExceptions, qt \in QueryTimes :
           resp[r] # Fail200(MsgCaught(e), qt)

\* "B.1" was rejected for the TLD "1" although the snapshot lists other TLDs
C2_Witness ==
  /\ param[1] = Str(<<"B", ".", "1">>)
  /\ Done(1)
  /\ resp[1].error = MsgUnsupported(<<"1">>)
  /\ dnsBootstrap # <<>>

\* the kind a client can read off a response: its status, flag and error text
Kind(rs) ==
  CASE rs.success -> "success"
    [] ~rs.success /\ rs.status = 400 /\ rs.error \in {MsgRequired, MsgInvalid} -> "invalid-input"
    [] ~rs.success /\ rs.status = 400 /\ rs.error.t = MsgUnsupported(<<>>).t -> "unsupported-tld"
    [] ~rs.success /\ rs.status = 200 /\ rs.error.t = MsgNotFound(<<>>).t -> "not-found"
    [] ~rs.success /\ rs.status = 200 /\ rs.error.t = MsgStatus(0).t -> "upstream-error"
    [] ~rs.success /\ rs.status = 200 /\ rs.error.t = MsgCaught(NoException).t -> "transport-error"
    [] OTHER -> "none"

\* a JSON value that is missing, null or an array, never a stray object
Shaped(x) == x.k # "object"

\* a body that is an RDAP object all of whose optional fields have the expected shape
WellShaped(data) ==
  /\ data.k = "obj"
  /\ Shaped(data.status) /\ Shaped(data.events) /\ Shaped(data.nameservers)
  /\ Shaped(data.secureDNS.dsData)
  /\ Shaped(data.entities)
  /\ data.entities.k = "list" =>
       \A i \in 1..Len(data.entities.v) :
         /\ Shaped(data.entities.v[i].roles)
         /\ Shaped(data.entities.v[i].publicIds)
         /\ Shaped(data.entities.v[i].vcardArray.second)

\* C3 (as claimed): every attempted query ends in the kind that matches what
\* upstream did: a rejected fetch is a transport-error, 404 is not-found, any
\* other non-2xx is an upstream-error carrying the status, a 2xx body that
\* does not parse is an upstream-error, a 2xx body that parses is a success.
C3_OutcomeKinds ==
  \A r \in Reqs :
    Done(r) /\ calls[r] = 1 =>
      /\ fetched[r].kind = "threw" => Kind(resp[r]) = "transport-error"
      /\ fetched[r].kind = "response" /\ fetched[r].status = 404 => Kind(resp[r]) = "not-found"
      /\ (fetched[r].kind = "response" /\ fetched[r].status # 404 /\ ~ResponseOk(fetched[r].status)) =>
           Kind(resp[r]) = "upstream-error" /\ resp[r].error = MsgStatus(fetched[r].status)
      /\ body[r].kind = "threw" => Kind(resp[r]) = "upstream-error"
      /\ body[r].kind = "parsed" /\ WellShaped(body[r].data) => Kind(resp[r]) = "success"

\* C4: once a request is answered, its response carries queryTime exactly when
\* the outbound call was issued; a 404 answer carries queryTime and no result.
C4_QueryTimeIffAttempted ==
  \A r \in Reqs :
    Done(r) =>
      /\ resp[r].hasQueryTime <=> calls[r] = 1
      /\ Kind(resp[r]) \in {"invalid-input", "unsupported-tld"} => ~resp[r].hasQueryTime
      /\ Kind(resp[r]) \in {"success", "not-found", "upstream-error", "transport-error"} =>
           resp[r].hasQueryTime
      /\ fetched[r].kind = "response" /\ fetched[r].status = 404 =>
           /\ resp[r].hasQueryTime
           /\ resp[r].queryTime \in QueryTimes
           /\ ~resp[r].hasResult

\* upstream answered 404 and the response carries the elapsed time
C4_Witness ==
  /\ Done(1)
  /\ fetched[1] = FetchStatus(404)
  /\ resp[1] = Fail200(MsgNotFound(domain[1]), 7)

\* C5 (as claimed): whenever the 2xx body is an RDAP object, whatever the
\* shape of its optional fields, the request ends in a success response, in
\* which a missing or misshaped entities, events or nameservers field, and a
\* missing status or dsData field, shows as null or the empty list.
C5_NormalizeNeverFails ==
  \A r \in Reqs :
    Done(r) /\ body[r].kind = "parsed" /\ body[r].data.k = "obj" =>
      /\ resp[r].success
      /\ resp[r].hasResult
      /\ body[r].data.entities.k # "list" =>
           resp[r].result.registrar = Null /\ resp[r].result.ianaId = Null
      /\ body[r].data.events.k # "list" => resp[r].result.events = NoEvents
      /\ body[r].data.nameservers.k # "list" => resp[r].result.nameservers = JsList(<<>>)
      /\ Nullish(body[r].data.status) => resp[r].result.status = JsList(<<>>)
      /\ Nullish(body[r].data.secureDNS.dsData) => resp[r].result.dnssec.dsData = JsList(<<>>)

Max(S) == CHOOSE i \in S : \A j \in S : j <= i
Min(S) == CHOOSE i \in S : \A j \in S : i <= j

\* the candidate list of a listed TLD: the endpoints of the last entry that lists it
Candidates(tld) == dnsBootstrap[Max(EntriesOf(tld))].endpoints

\* the tie-break, by position: the https candidate of lowest index, else the first
TieBreak(cands) ==
  LET https == {i \in 1..Len(cands) : cands[i].scheme = "https"}
  IN  IF https # {} THEN cands[Min(https)] ELSE cands[1]

\* C6: once the index is built it maps every TLD the snapshot lists, and no
\* other, to the first https candidate of the TLD's candidate list, or to the
\* list's first candidate when none is https; a request that reaches the
\* fetch queries exactly that base URL for its TLD.
C6_TieBreak ==
  /\ ~tldToEndpoint.isNull =>
       /\ DOMAIN tldToEndpoint.map = {t \in {<<"a">>, <<"b">>, <<"B">>, <<"1">>} : EntriesOf(t) # {}}
       /\ \A t \in DOMAIN tldToEndpoint.map : tldToEndpoint.map[t] = TieBreak(Candidates(t))
  /\ \A r \in Reqs :
       pc[r] = "fetch" =>
         /\ ~tldToEndpoint.isNull
         /\ EntriesOf(LastLabel(domain[r])) # {}
         /\ rdapEndpoint[r] = TieBreak(Candidates(LastLabel(domain[r])))
         /\ rdapUrl[r] = [base |-> rdapEndpoint[r], path |-> "domain/", domain |-> domain[r]]

\* the only https candidates stand third and fourth; the third was chosen
C6_Witness ==
  /\ pc[1] = "fetch"
  /\ domain[1] = <<"1", ".", "a">>
  /\ Max(EntriesOf(<<"a">>)) = 2
  /\ dnsBootstrap[2].endpoints =
       <<Url("http", "h4"), Url("http", "h2"), Url("https", "h3"), Url("https", "h1")>>
  /\ rdapEndpoint[1] = Url("https", "h3")

Rank(ph) ==
  CASE ph = "Validating" -> 1
    [] ph = "Resolving" -> 2
    [] ph = "Querying" -> 3
    [] ph = "Normalizing" -> 4
    [] OTHER -> 5

\* the stage a stage may follow
FollowsOk(a, b) ==
  \/ a = "Validating" /\ b \in {"Resolving", "Rejected"}
  \/ a = "Resolving" /\ b \in {"Querying", "Rejected"}
  \/ a = "Querying" /\ b \in {"Normalizing", "Failure"}
  \/ a = "Normalizing" /\ b \in {"Success", "Failure"}

\* C7: the stages a request has passed start at Validating, advance one stage
\* at a time and never go back; the request is answered exactly when the last
\* stage is Rejected, Failure or Success; it has issued one outbound call if
\* it reached Querying and none otherwise, also after a failure.
C7_OnePass ==
  \A r \in Reqs :
    /\ Started(r) <=> phases[r] # <<>>
    /\ Started(r) => phases[r][1] = "Validating"
    /\ \A i \in 1..(Len(phases[r]) - 1) :
         /\ Rank(phases[r][i]) < Rank(phases[r][i + 1])
         /\ FollowsOk(phases[r][i], phases[r][i + 1])
    /\ Done(r) <=> (Started(r) /\ Rank(phases[r][Len(phases[r])]) = 5)
    /\ Done(r) <=> resp[r] # NoResp
    /\ calls[r] = IF \E i \in 1..Len(phases[r]) : phases[r][i] = "Querying" THEN 1 ELSE 0

\* a request whose fetch was rejected is over after one call, while another awaits its body
C7_Witness ==
  /\ Done(1)
  /\ fetched[1].kind = "threw"
  /\ phases[1] = <<"Validating", "Resolving", "Querying", "Failure">>
  /\ calls[1] = 1
  /\ pc[2] = "json"

\* the date a slot must hold: that of the last event with the action, if any
LastEventDate(events, action) ==
  LET at == {i \in 1..Len(events) : events[i].eventAction = action}
  IN  IF at = {} THEN Null ELSE formatDate(events[Max(at)].eventDate)

\* C8: in a success response each of the four event slots holds the formatted
\* date of the last event in list order that carries the slot's action, and
\* null when no event carries it; events with another action change nothing.
C8_LastEventWins ==
  \A r \in Reqs :
    Done(r) /\ resp[r].success =>
      LET ev == IF body[r].data.events.k = "list" THEN body[r].data.events.v ELSE <<>>
          slots == resp[r].result.events
      IN  /\ slots.registration = LastEventDate(ev, "registration")
          /\ slots.expiration = LastEventDate(ev, "expiration")
          /\ slots.lastChanged = LastEventDate(ev, "last changed")
          /\ slots.lastUpdateOfRdapDatabase = LastEventDate(ev, "last update of RDAP database")

\* two expiration events around a transfer event: the second date is reported
C8_Witness ==
  /\ Done(1)
  /\ resp[1].success
  /\ body[1].data.events =
       JsList(<<[eventAction |-> "expiration", eventDate |-> [valid |-> TRUE, y |-> 2024, m |-> 1, d |-> 5]],
                [eventAction |-> "transfer", eventDate |-> [valid |-> TRUE, y |-> 2024, m |-> 1, d |-> 5]],
                [eventAction |-> "expiration", eventDate |-> [valid |-> TRUE, y |-> 1999, m |-> 12, d |-> 31]]>>)
  /\ resp[1].result.events = [NoEvents EXCEPT !.expiration = "December 31, 1999"]

\* the first entity in list order whose roles contain "registrar", or 0
FirstRegistrar(es) ==
  LET at == {i \in 1..Len(es) :
               es[i].roles.k = "list" /\ \E j \in 1..Len(es[i].roles.v) : es[i].roles.v[j] = "registrar"}
  IN  IF at = {} THEN 0 ELSE Min(at)

\* the name the first registrar entity supplies
NameOfFirstRegistrar(es) ==
  LET r == FirstRegistrar(es)
  IN  IF r = 0 \/ es[r].vcardArray.k # "array" \/ es[r].vcardArray.second.k # "list" THEN Null
      ELSE LET vc == es[r].vcardArray.second.v
               fn == {i \in 1..Len(vc) : vc[i].name = "fn"}
           IN  IF fn # {} /\ vc[Min(fn)].value.k = "string" THEN vc[Min(fn)].value.s ELSE Null

\* the identifier of the first "IANA Registrar ID" of the first registrar entity
IdOfFirstRegistrar(es) ==
  LET r == FirstRegistrar(es)
  IN  IF r = 0 \/ es[r].publicIds.k # "list" THEN Null
      ELSE LET ids == es[r].publicIds.v
               iana == {i \in 1..Len(ids) : ids[i].type = "IANA Registrar ID"}
           IN  IF iana = {} THEN Null ELSE ids[Min(iana)].identifier

EntitiesOf(r) == IF body[r].data.entities.k = "list" THEN body[r].data.entities.v ELSE <<>>

\* C9 (as claimed): in a success response the registrar name is the string
\* value of the first fn entry, and the IANA id the value of the first
\* "IANA Registrar ID" public id, of the first registrar entity; a field that
\* entity does not supply is null.
C9_FirstRegistrarOnly_AsClaimed ==
  \A r \in Reqs :
    Done(r) /\ resp[r].success =>
      /\ resp[r].result.registrar = NameOfFirstRegistrar(EntitiesOf(r))
      /\ resp[r].result.ianaId = IdOfFirstRegistrar(EntitiesOf(r))

\* C9 (amended): as claimed, but an "IANA Registrar ID" public id whose
\* identifier is the empty string yields a null IANA id.
C9_FirstRegistrarOnly ==
  \A r \in Reqs :
    Done(r) /\ resp[r].success =>
      /\ resp[r].result.registrar = NameOfFirstRegistrar(EntitiesOf(r))
      /\ resp[r].result.ianaId =
           IF IdOfFirstRegistrar(EntitiesOf(r)) = "" THEN Null ELSE IdOfFirstRegistrar(EntitiesOf(r))

\* the first registrar entity has neither vCard nor public ids, the second has
\* both: name and id are null
C9_Witness ==
  /\ Done(1)
  /\ resp[1].success
  /\ body[1].data.entities =
       JsList(<<Entity(JsList(<<"registrar">>), NoVcard, JsUndefined),
                Entity(JsList(<<"registrar">>), Vcard(JsList(<<VText("fn", "Registrar A")>>)),
                       JsList(<<Pid("IANA Registrar ID", "292")>>))>>)
  /\ resp[1].result.registrar = Null
  /\ resp[1].result.ianaId = Null

\* C10: in a success response the status list and the dsData list are the raw
\* lists themselves, the nameserver list has one entry per raw nameserver, in
\* order, named by its ldhName, and each list is empty when the raw field is
\* absent.
C10_ListsPreserved ==
  \A r \in Reqs :
    Done(r) /\ resp[r].success =>
      LET data == body[r].data
          res == resp[r].result
      IN  /\ data.status.k = "list" => res.status = data.status
          /\ data.status.k = "absent" => res.status = JsList(<<>>)
          /\ data.secureDNS.dsData.k = "list" => res.dnssec.dsData = data.secureDNS.dsData
          /\ data.secureDNS.dsData.k = "absent" => res.dnssec.dsData = JsList(<<>>)
          /\ data.nameservers.k = "absent" => res.nameservers = JsList(<<>>)
          /\ data.nameservers.k = "list" =>
               /\ res.nameservers.k = "list"
               /\ Len(res.nameservers.v) = Len(data.nameservers.v)
               /\ \A i \in 1..Len(data.nameservers.v) :
                    res.nameservers.v[i].name = data.nameservers.v[i].ldhName

\* two different entries in each of the three lists come out in the same order
C10_Witness ==
  /\ Done(1)
  /\ resp[1].success
  /\ body[1].data.status = JsList(<<"clientHold", "active">>)
  /\ resp[1].result.status = JsList(<<"clientHold", "active">>)
  /\ Len(body[1].data.nameservers.v) = 2
  /\ body[1].data.nameservers.v[1].ldhName = "ns2.a.b"
  /\ body[1].data.nameservers.v[2].ldhName = "ns1.a.b"
  /\ resp[1].result.nameservers.v[1].name = "ns2.a.b"
  /\ resp[1].result.nameservers.v[2].name = "ns1.a.b"
  /\ Len(resp[1].result.dnssec.dsData.v) = 2
  /\ resp[1].result.dnssec.dsData.v[1].keyTag = 2
  /\ resp[1].result.dnssec.dsData.v[2].keyTag = 1

\* two strings that differ at most in the case of their letters
SameUpToCase(s, v) ==
  /\ Len(s) = Len(v)
  /\ \A i \in 1..Len(s) : s[i] = v[i] \/ {s[i], v[i]} = {"b", "B"}

\* C11: two requests whose parameters differ at most in letter case are
\* validated alike (both rejected with the same 400 answer or both accepted),
\* look up the same domain, resolve to the same base URL and send the same
\* request URL; when the upstream settled both alike, their answers are equal.
C11_CaseInsensitive ==
  \A r1 \in Reqs, r2 \in Reqs :
    /\ Started(r1) /\ Started(r2)
    /\ param[r1].present /\ param[r2].present
    /\ SameUpToCase(param[r1].s, param[r2].s)
    =>
    /\ domain[r1] = domain[r2]
    /\ resp[r1].status = 400 <=> resp[r2].status = 400
    /\ resp[r1].status = 400 => resp[r1] = resp[r2]
    /\ calls[r1] = calls[r2]
    /\ rdapEndpoint[r1] = rdapEndpoint[r2]
    /\ rdapUrl[r1] = rdapUrl[r2]
    /\ Done(r1) /\ Done(r2) /\ fetched[r1] = fetched[r2] /\ body[r1] = body[r2]
         /\ queryTime[r1] = queryTime[r2]
         => resp[r1] = resp[r2]

\* "1.b" and "1.B" were both looked up under the TLD b and answered alike
C11_Witness ==
  /\ param[1] = Str(<<"1", ".", "b">>)
  /\ param[2] = Str(<<"1", ".", "B">>)
  /\ Done(1) /\ Done(2)
  /\ rdapEndpoint[2] = Url("http", "h2")
  /\ resp[1].success
  /\ resp[2] = resp[1]

\* C12: once the index is built, every TLD label of every snapshot entry is a
\* key of it in lower case; the labels of one entry that no later entry lists
\* again all map to the one URL the tie-break picks from that entry's
\* candidates; a label listed again maps to the pick of the last entry that
\* lists it, also when an earlier entry had an https candidate and the last
\* one has none.
C12_LastWriteWins ==
  ~tldToEndpoint.isNull =>
    \A i \in 1..Len(dnsBootstrap) :
      \A j \in 1..Len(dnsBootstrap[i].tlds) :
        LET label == dnsBootstrap[i].tlds[j]
            key == [n \in 1..Len(label) |-> IF label[n] = "B" THEN "b" ELSE label[n]]
            later == {k \in (i + 1)..Len(dnsBootstrap) :
                        \E l \in 1..Len(dnsBootstrap[k].tlds) :
                          toLowerCase(dnsBootstrap[k].tlds[l]) = key}
        IN  /\ key \in DOMAIN tldToEndpoint.map
            /\ later = {} => tldToEndpoint.map[key] = TieBreak(dnsBootstrap[i].endpoints)
            /\ later # {} => tldToEndpoint.map[key] = TieBreak(dnsBootstrap[Max(later)].endpoints)

\* the TLD a has an https URL in the first entry and none in the second,
\* which also lists B: both keys hold the second entry's first candidate
C12_Witness ==
  /\ dnsBootstrap = <<Entry(<<<<"a">>>>, <<Url("https", "h1")>>),
                      Entry(<<<<"a">>, <<"B">>>>, <<Url("http", "h2"), Url("http", "h4")>>)>>
  /\ ~tldToEndpoint.isNull
  /\ tldToEndpoint.map[<<"a">>] = Url("http", "h2")
  /\ tldToEndpoint.map[<<"b">>] = Url("http", "h2")
  /\ pc[1] = "fetch"

\* the request went through getRdapUrl past the TLD test
Resolved(r) == Len(phases[r]) >= 2 /\ phases[r][2] = "Resolving"

\* the index holds every TLD of the snapshot, each with its final URL
FullyPopulated(index) ==
  /\ DOMAIN index.map = {t \in {<<"a">>, <<"b">>, <<"B">>, <<"1">>} : EntriesOf(t) # {}}
  /\ \A t \in DOMAIN index.map : index.map[t] = TieBreak(Candidates(t))

\* C13: the index goes from unbuilt to fully populated in one step and is
\* never changed afterwards; every request that resolved its TLD, whatever
\* other requests were awaiting their upstream at the time, was given what
\* the fully populated index holds for it (the TLD's URL, or the unsupported-
\* TLD rejection when the snapshot does not list it), so two requests for
\* the same domain resolve to the same base URL.
C13_IndexBuiltOnce ==
  /\ [](/\ ~tldToEndpoint.isNull => FullyPopulated(tldToEndpoint)
        /\ \A r \in Reqs :
             Resolved(r) =>
               /\ ~tldToEndpoint.isNull
               /\ IF LastLabel(domain[r]) \in DOMAIN tldToEndpoint.map
                  THEN rdapEndpoint[r] = tldToEndpoint.map[LastLabel(domain[r])]
                  ELSE resp[r] = Reject400(MsgUnsupported(LastLabel(domain[r])))
        /\ \A r1 \in Reqs, r2 \in Reqs :
             Resolved(r1) /\ Resolved(r2) /\ domain[r1] = domain[r2] =>
               rdapEndpoint[r1] = rdapEndpoint[r2] /\ rdapUrl[r1] = rdapUrl[r2])
  /\ [][/\ ~tldToEndpoint.isNull => tldToEndpoint' = tldToEndpoint
        /\ dnsBootstrap' = dnsBootstrap]_vars

\* two requests for "1.a" both await their fetch, resolved to the same URL
C13_Witness ==
  /\ pc[1] = "fetch" /\ pc[2] = "fetch"
  /\ domain[1] = <<"1", ".", "a">> /\ domain[2] = domain[1]
  /\ ~tldToEndpoint.isNull
  /\ rdapEndpoint[1] = Url("https", "h3")
  /\ rdapEndpoint[2] = rdapEndpoint[1]

\* a handleLookup invocation whose request is still awaiting its response
Pending(k) == lookups[k].pc \in {"fetch", "json"}

\* C14: the signals error and result are never both non-null.
C14_ErrorResultExclusive == ~(error # Null /\ ~result.isNull)

\* C15: isLoading is true exactly while at least one request started by
\* handleLookup is still awaiting its response: true in every state with a
\* pending request, false in every state without one.
C15_LoadingTracksPending == isLoading <=> \E k \in Lookups : Pending(k)

====
